---- MODULE Spec2Model ----
(***************************************************************************)
(* A model of the natural-language trace-query translation service:       *)
(* AITranslationService (services/AITranslationService.ts) and the older  *)
(* copy of it kept at the end of SearchTracePage/AISearchForm.jsx.         *)
(*                                                                         *)
(* JavaScript strings are sequences of one-character strings, so that the *)
(* regular expressions, split, join and parseInt of the source are        *)
(* computed character by character.                                        *)
(***************************************************************************)
EXTENDS Integers, Sequences, FiniteSets, TLC

(***************************************************************************)
(* Bounds of the model.                                                    *)
(***************************************************************************)
MaxLimitLen == 3
MaxLookbackLen == 3
MaxDurationLen == 4
MaxTagFrags == 4

(***************************************************************************)
(* JavaScript values, as far as JSON.parse can produce them in a field.    *)
(* t is the type, s the characters of a string, n the number (for "frac"  *)
(* the number is n + 0.5, for "bool" 1 is true).  "absent" is a missing    *)
(* property, "undefined" a property whose value is undefined.              *)
(***************************************************************************)
Absent == [t |-> "absent", s |-> <<>>, n |-> 0]
Undef == [t |-> "undefined", s |-> <<>>, n |-> 0]
Null == [t |-> "null", s |-> <<>>, n |-> 0]
Bool(b) == [t |-> "bool", s |-> <<>>, n |-> IF b THEN 1 ELSE 0]
Num(k) == [t |-> "num", s |-> <<>>, n |-> k]
Frac(k) == [t |-> "frac", s |-> <<>>, n |-> k]
Str(chars) == [t |-> "str", s |-> chars, n |-> 0]
Obj == [t |-> "obj", s |-> <<>>, n |-> 0]

\* The truthiness of a value: what `if (v)` and `v && ...` test.
Truthy(v) ==
  CASE v.t = "bool" -> v.n = 1
    [] v.t = "num" -> v.n # 0
    [] v.t = "frac" -> TRUE
    [] v.t = "str" -> v.s # <<>>
    [] v.t = "obj" -> TRUE
    [] OTHER -> FALSE

\* typeof v === 'number'
IsNumber(v) == v.t \in {"num", "frac"}

(***************************************************************************)
(* Characters and strings.                                                 *)
(***************************************************************************)
Digits == {"0", "1", "2", "3", "4", "5", "6", "7", "8", "9"}

DigitVal(c) ==
  CASE c = "0" -> 0 [] c = "1" -> 1 [] c = "2" -> 2 [] c = "3" -> 3
    [] c = "4" -> 4 [] c = "5" -> 5 [] c = "6" -> 6 [] c = "7" -> 7
    [] c = "8" -> 8 [] c = "9" -> 9

DigitChar(d) ==
  CASE d = 0 -> "0" [] d = 1 -> "1" [] d = 2 -> "2" [] d = 3 -> "3"
    [] d = 4 -> "4" [] d = 5 -> "5" [] d = 6 -> "6" [] d = 7 -> "7"
    [] d = 8 -> "8" [] d = 9 -> "9"

Letters ==
  {"a", "b", "c", "d", "e", "f", "g", "h", "i", "j", "k", "l", "m", "n",
   "o", "p", "q", "r", "s", "t", "u", "v", "w", "x", "y", "z",
   "A", "B", "C", "D", "E", "F", "G", "H", "I", "J", "K", "L", "M", "N",
   "O", "P", "Q", "R", "S", "T", "U", "V", "W", "X", "Y", "Z"}

\* The white space parseInt skips and JSON.parse allows between tokens.
WhiteSpace == {" ", "\t", "\n", "\r"}

\* All strings over the alphabet A of length at most n.
StrsUpTo(A, n) == UNION {[1..k -> A] : k \in 0..n}

RECURSIVE Concat(_)
\* The concatenation of a sequence of strings.
Concat(ss) == IF ss = <<>> THEN <<>> ELSE Head(ss) \o Concat(Tail(ss))

RECURSIVE SplitAcc(_, _, _, _, _)
SplitAcc(str, i, sep, cur, acc) ==
  IF i > Len(str) THEN Append(acc, cur)
  ELSE IF str[i] = sep THEN SplitAcc(str, i + 1, sep, <<>>, Append(acc, cur))
  ELSE SplitAcc(str, i + 1, sep, Append(cur, str[i]), acc)

\* String.prototype.split with a one-character separator: "".split(' ') is
\* [""], and two separators in a row give an empty piece.
Split(str, sep) == SplitAcc(str, 1, sep, <<>>, <<>>)

RECURSIVE Join(_, _)
\* Array.prototype.join with a one-character separator.
Join(list, sep) ==
  IF list = <<>> THEN <<>>
  ELSE IF Len(list) = 1 THEN list[1]
  ELSE list[1] \o <<sep>> \o Join(Tail(list), sep)

\* Array.prototype.includes on an array of strings.
Includes(list, x) == \E i \in 1..Len(list) : list[i] = x

RECURSIVE NatToChars(_)
NatToChars(k) ==
  IF k < 10 THEN <<DigitChar(k)>>
  ELSE NatToChars(k \div 10) \o <<DigitChar(k % 10)>>

\* String(v) for the values the regular expressions and parseInt are given.
ToStringChars(v) ==
  CASE v.t = "str" -> v.s
    [] v.t = "num" ->
         IF v.n < 0 THEN <<"-">> \o NatToChars(0 - v.n) ELSE NatToChars(v.n)
    [] v.t = "frac" -> NatToChars(v.n) \o <<".", "5">>
    [] v.t = "bool" ->
         IF v.n = 1 THEN <<"t", "r", "u", "e">> ELSE <<"f", "a", "l", "s", "e">>
    [] v.t = "obj" ->
         <<"[", "o", "b", "j", "e", "c", "t", " ", "O", "b", "j", "e", "c", "t", "]">>
    [] v.t = "null" -> <<"n", "u", "l", "l">>
    [] OTHER -> <<"u", "n", "d", "e", "f", "i", "n", "e", "d">>

(***************************************************************************)
(* parseInt(string, 10) and the three regular expressions of validateQuery.*)
(***************************************************************************)
RECURSIVE SkipWhiteSpace(_, _)
\* The first index at or after i that holds no white space.
SkipWhiteSpace(str, i) ==
  IF i <= Len(str) /\ str[i] \in WhiteSpace THEN SkipWhiteSpace(str, i + 1) ELSE i

RECURSIVE DigitRun(_, _)
\* The index after the run of digits that starts at i.
DigitRun(str, i) ==
  IF i <= Len(str) /\ str[i] \in Digits THEN DigitRun(str, i + 1) ELSE i

RECURSIVE DecimalValue(_, _, _)
\* The value of the digits str[i..j-1], most significant first.
DecimalValue(str, i, j) ==
  IF i >= j THEN 0
  ELSE DecimalValue(str, i, j - 1) * 10 + DigitVal(str[j - 1])

\* parseInt(str, 10): leading white space is skipped, one sign is accepted,
\* the longest run of digits is read and the rest is ignored; NaN when there
\* is no digit.
parseInt(str) ==
  LET a == SkipWhiteSpace(str, 1)
      neg == a <= Len(str) /\ str[a] = "-"
      b == IF a <= Len(str) /\ str[a] \in {"-", "+"} THEN a + 1 ELSE a
      c == DigitRun(str, b)
      mag == DecimalValue(str, b, c)
  IN  IF c = b THEN [nan |-> TRUE, n |-> 0]
      ELSE [nan |-> FALSE, n |-> IF neg THEN 0 - mag ELSE mag]

\* /^\d+[hdms]$/.test(str)
LookbackRegexTest(str) ==
  /\ Len(str) >= 2
  /\ str[Len(str)] \in {"h", "d", "m", "s"}
  /\ DigitRun(str, 1) = Len(str)

\* /^\d+(\.\d+)?[hdms]$/.test(str)
DurationRegexTest(str) ==
  LET a == DigitRun(str, 1)
      b == IF a <= Len(str) /\ str[a] = "." THEN DigitRun(str, a + 1) ELSE a
  IN  /\ a > 1
      /\ \/ a = Len(str)
         \/ /\ b > a + 1
            /\ b = Len(str)
      /\ Len(str) >= 1
      /\ str[Len(str)] \in {"h", "d", "m", "s"}

\* The character class [a-zA-Z0-9._-].
TagKeyChars == Letters \cup Digits \cup {".", "_", "-"}

RECURSIVE TagKeyRun(_, _)
TagKeyRun(str, i) ==
  IF i <= Len(str) /\ str[i] \in TagKeyChars THEN TagKeyRun(str, i + 1) ELSE i

\* /^[a-zA-Z0-9._-]+=/.test(pair)
TagRegexTest(pair) ==
  LET a == TagKeyRun(pair, 1)
  IN  a > 1 /\ a <= Len(pair) /\ pair[a] = "="

(***************************************************************************)
(* The candidate query: the value JSON.parse gave.  kind is "object",      *)
(* "array", "null" or "prim" (a number, string or boolean); only an object *)
(* has fields.                                                             *)
(***************************************************************************)
EmptyQuery ==
  [kind |-> "object", limit |-> Absent, service |-> Absent, lookback |-> Absent,
   minDuration |-> Absent, maxDuration |-> Absent, tags |-> Absent]

\* this.serviceRoutes[name]: undefined for a name no fetch has written.
Unfetched == [def |-> FALSE, routes |-> <<>>]
Fetched(rs) == [def |-> TRUE, routes |-> rs]
RoutesOf(serviceRoutes, name) ==
  IF name \in DOMAIN serviceRoutes THEN serviceRoutes[name] ELSE Unfetched

HttpRoute == <<"h", "t", "t", "p", ".", "r", "o", "u", "t", "e">>

(***************************************************************************)
(* validateQuery, rule by rule.                                            *)
(***************************************************************************)
\* parseInt(query.limit, 10) || 100
parseIntOr100(v) ==
  LET p == parseInt(ToStringChars(v))
  IN  IF p.nan \/ p.n = 0 THEN 100 ELSE p.n

\* The limit without the coercion of lines 223-225: only the default is set.
coerceLimitDefaultOnly(limit) == IF ~Truthy(limit) THEN Num(100) ELSE limit

\* The limit with the default of line 224 written as the text '100'.
coerceLimitTextDefault(limit) ==
  LET p == parseInt(ToStringChars(limit))
      l1 == IF Truthy(limit) /\ ~IsNumber(limit)
            THEN IF p.nan \/ p.n = 0 THEN Str(<<"1", "0", "0">>) ELSE Num(p.n)
            ELSE limit
  IN  IF ~Truthy(l1) THEN Num(100) ELSE l1

\* Lines 223-228: the limit is coerced to a number and defaults to 100.
coerceLimit(limit) ==
  LET l1 == IF Truthy(limit) /\ ~IsNumber(limit) THEN Num(parseIntOr100(limit))
            ELSE limit
  IN  IF ~Truthy(l1) THEN Num(100) ELSE l1

\* Line 231: the condition under which the service is rejected.
serviceRejected(service, services) ==
  Truthy(service) /\ ~(service.t = "str" /\ Includes(services, service.s))

\* Lines 236-238.
fixLookback(lookback) ==
  IF Truthy(lookback) /\ ~LookbackRegexTest(ToStringChars(lookback))
  THEN Str(<<"1", "h">>)
  ELSE lookback

\* The durations tested with the pattern of the lookback, which has no
\* decimal part.
fixDurationIntegerOnly(duration) ==
  IF Truthy(duration) /\ ~LookbackRegexTest(ToStringChars(duration)) THEN Absent
  ELSE duration

\* Lines 242-247: one duration field.
fixDuration(duration) ==
  IF Truthy(duration) /\ ~DurationRegexTest(ToStringChars(duration))
  THEN Absent
  ELSE duration

\* const [key, value] = pair.split('='): value is undefined without '='.
PairKey(pair) == Split(pair, "=")[1]
PairHasValue(pair) == Len(Split(pair, "=")) >= 2
PairValue(pair) == Split(pair, "=")[2]

\* Lines 252-262: the filter of the route-aware validator.
tagPairKept(pair, service, serviceRoutes) ==
  IF PairKey(pair) = <<>> \/ ~PairHasValue(pair) \/ PairValue(pair) = <<>>
  THEN FALSE
  ELSE IF PairKey(pair) = HttpRoute /\ Truthy(service)
  THEN LET r == RoutesOf(serviceRoutes, service.s)
       IN  r.def /\ Includes(r.routes, PairValue(pair))
  ELSE TagRegexTest(pair)

\* AISearchForm.jsx lines 424-427: the filter without route validation.
tagPairKeptBasic(pair) ==
  /\ PairKey(pair) # <<>>
  /\ PairHasValue(pair)
  /\ PairValue(pair) # <<>>
  /\ TagRegexTest(pair)

\* validTags.join(' ') || undefined
joinOrUndefined(validTags) ==
  IF Join(validTags, " ") = <<>> THEN Undef ELSE Str(Join(validTags, " "))

\* Lines 250-264.
filterTags(tags, service, serviceRoutes) ==
  LET Kept(pair) == tagPairKept(pair, service, serviceRoutes)
  IN  joinOrUndefined(SelectSeq(Split(tags.s, " "), Kept))

\* AISearchForm.jsx lines 422-429.
filterTagsBasic(tags) ==
  joinOrUndefined(SelectSeq(Split(tags.s, " "), tagPairKeptBasic))

\* What a call of validateQuery ends with: the query it returns, or the error
\* it throws (then q is what the candidate had become, which nobody sees).
Returned(q) == [status |-> "ok", q |-> q]
Thrown(kind, q) == [status |-> kind, q |-> q]

\* The tags rule of the variant: "ts" is AITranslationService.ts, "jsx" the
\* copy in AISearchForm.jsx.
tagsRule(q, serviceRoutes, variant) ==
  IF variant = "jsx" THEN filterTagsBasic(q.tags)
  ELSE filterTags(q.tags, q.service, serviceRoutes)

\* Lines 236-247: the lookback and the two durations.
fixTimes(q) ==
  [q EXCEPT !.lookback = fixLookback(q.lookback),
            !.minDuration = fixDuration(q.minDuration),
            !.maxDuration = fixDuration(q.maxDuration)]

\* Lines 250-266: query.tags.split throws a TypeError when the tags are
\* truthy and no string.
validateTags(q, serviceRoutes, variant) ==
  IF ~Truthy(q.tags) THEN Returned(q)
  ELSE IF q.tags.t # "str" THEN Thrown("TypeError", q)
  ELSE Returned([q EXCEPT !.tags = tagsRule(q, serviceRoutes, variant)])

\* Lines 230-266: the rules after the limit.
validateRest(q, services, serviceRoutes, variant) ==
  IF serviceRejected(q.service, services) THEN Thrown("InvalidServiceError", q)
  ELSE validateTags(fixTimes(q), serviceRoutes, variant)

\* The first rule: reading a property of null throws, and so does, in the
\* strict mode of a module, creating the limit of a primitive.
validateFrom(q, services, serviceRoutes, variant) ==
  IF q.kind = "null" THEN Thrown("TypeError", q)
  ELSE IF q.kind = "prim" THEN Thrown("TypeError", q)
  ELSE validateRest([q EXCEPT !.limit = coerceLimit(q.limit)], services, serviceRoutes,
                    variant)

\* AITranslationService.validateQuery (AITranslationService.ts).
validateQuery(q, services, serviceRoutes) ==
  validateFrom(q, services, serviceRoutes, "ts")

\* The validateQuery of the copy in AISearchForm.jsx, which has no routes.
validateQueryBasic(q, services) == validateFrom(q, services, <<>>, "jsx")

(***************************************************************************)
(* State.                                                                  *)
(*                                                                         *)
(* The service object and the translateQuery calls in flight on it:        *)
(*   services       this.services                                          *)
(*   serviceRoutes  this.serviceRoutes                                     *)
(*   pc             where each call is suspended                           *)
(*   ctx            each call's context.selectedService                    *)
(*   operations     each call's operations request per service: not sent,  *)
(*                  awaited ("pending"), or how it settled                 *)
(*   health         how each call's health check ended                     *)
(*   log            the events of each call, in order: the requests it     *)
(*                  issued, the answers it got and the steps it took       *)
(*   outcome        what each call returned or threw                       *)
(*                                                                         *)
(* validateQuery on its own:                                               *)
(*   vVariant   which validateQuery is applied: "ts" or "jsx"              *)
(*   vIn        the candidate validateQuery is given                       *)
(*   vServices  this.services when it is called                            *)
(*   vRoutes    this.serviceRoutes when it is called                       *)
(*   vOut       what the call ended with (status "none" before the call)   *)
(*                                                                         *)
(* The extraction of the JSON on its own:                                  *)
(*   xText      the generated text (data.response)                         *)
(*   xOut       the value extracted, or the error                          *)
(***************************************************************************)
VARIABLES services, serviceRoutes, pc, ctx, operations, health, log, outcome,
          vVariant, vIn, vServices, vRoutes, vOut,
          xText, xOut,
          pQuery, pContext, pServices, pRoutes, pPrompt

serviceVars == <<services, serviceRoutes, pc, ctx, operations, health, log, outcome>>
validateVars == <<vVariant, vIn, vServices, vRoutes, vOut>>
extractVars == <<xText, xOut>>
renderVars == <<pQuery, pContext, pServices, pRoutes, pPrompt>>
vars == <<serviceVars, validateVars, extractVars, renderVars>>

NotCalled == [status |-> "none", q |-> EmptyQuery]

MaxCalls == 2
Calls == 1..MaxCalls

(***************************************************************************)
(* The inputs of the validator.                                            *)
(***************************************************************************)
SvcA == <<"p", "a", "y">>
SvcB == <<"o", "r", "d">>
Ghost == <<"g", "h", "o", "s", "t">>
ServiceNames == {SvcA, SvcB}

RouteA == <<"/", "a">>
RouteAEqA == <<"/", "a", "=", "a">>

NoRoutes == (SvcA :> Unfetched) @@ (SvcB :> Unfetched)

Catalogs ==
  { [services |-> <<>>, routes |-> NoRoutes],
    [services |-> <<SvcA>>, routes |-> NoRoutes],
    [services |-> <<SvcA>>, routes |-> (SvcA :> Fetched(<<>>)) @@ NoRoutes],
    [services |-> <<SvcA, SvcB>>,
     routes |-> (SvcA :> Fetched(<<RouteA>>)) @@ (SvcB :> Fetched(<<RouteA, RouteAEqA>>))] }

\* No operations request has been sent.
NoOperations == [s \in ServiceNames |-> "none"]

\* A call that has not ended: no status, and the catalog it ended with.
NotEnded == [status |-> "none", q |-> EmptyQuery, services |-> <<>>, routes |-> NoRoutes]

\* The state of the parts a specification does not exercise.
ServiceIdle ==
  /\ services = <<>>
  /\ serviceRoutes = NoRoutes
  /\ pc = [c \in Calls |-> "idle"]
  /\ ctx = [c \in Calls |-> Absent]
  /\ operations = [c \in Calls |-> NoOperations]
  /\ health = [c \in Calls |-> "none"]
  /\ log = [c \in Calls |-> <<>>]
  /\ outcome = [c \in Calls |-> NotEnded]

ValidateIdle ==
  /\ vVariant = "ts"
  /\ vIn = EmptyQuery
  /\ vServices = <<>>
  /\ vRoutes = NoRoutes
  /\ vOut = NotCalled

ExtractIdle ==
  /\ xText = <<>>
  /\ xOut = NotCalled

NotRendered == [status |-> "none", text |-> <<>>]

RenderIdle ==
  /\ pQuery = <<>>
  /\ pContext = Absent
  /\ pServices = <<>>
  /\ pRoutes = NoRoutes
  /\ pPrompt = NotRendered

NonStrVals ==
  {Absent, Null, Bool(TRUE), Bool(FALSE), Num(0), Num(7), Num(0 - 5), Frac(2), Obj}

LimitVals == NonStrVals \cup {Str(x) : x \in StrsUpTo({"5", "0", "a", "-", " "}, MaxLimitLen)}

ServiceVals == NonStrVals \cup {Str(<<>>), Str(SvcA), Str(SvcB), Str(Ghost)}

LookbackVals == NonStrVals \cup {Str(x) : x \in StrsUpTo({"2", "h", "x", "\n"}, MaxLookbackLen)}

DurationVals == NonStrVals \cup {Str(x) : x \in StrsUpTo({"1", ".", "s", "x"}, MaxDurationLen)}

FewDurations == {Absent, Str(<<>>), Str(<<"1", "s">>), Str(<<"x">>), Num(7)}

TagFrags ==
  {<<"a">>, <<"=">>, <<" ">>, <<"\t">>, <<"#">>, HttpRoute \o <<"=">>, RouteA}

TagVals == NonStrVals \cup {Str(Concat(fs)) : fs \in StrsUpTo(TagFrags, MaxTagFrags)}

FewServices == {Absent, Str(SvcA), Str(SvcB)}

Q(l, sv, lb, mn, mx, tg) ==
  [kind |-> "object", limit |-> l, service |-> sv, lookback |-> lb,
   minDuration |-> mn, maxDuration |-> mx, tags |-> tg]

\* Candidates that vary one rule's field over its whole domain.
FieldCandidates ==
  {Q(l, sv, Absent, Absent, Absent, Absent) : l \in LimitVals, sv \in {Absent, Str(Ghost)}}
  \cup {Q(Absent, sv, Absent, Absent, Absent, Absent) : sv \in ServiceVals}
  \cup {Q(Absent, Absent, lb, Absent, Absent, Absent) : lb \in LookbackVals}
  \cup {Q(Absent, Absent, Absent, mn, mx, Absent) : mn \in DurationVals, mx \in FewDurations}
  \cup {Q(Absent, Absent, Absent, mn, mx, Absent) : mn \in FewDurations, mx \in DurationVals}

TagCandidates == {Q(Absent, sv, Absent, Absent, Absent, tg) : sv \in FewServices, tg \in TagVals}

\* Candidates that vary every field at once, over a few values each.
MixedCandidates ==
  {Q(l, sv, lb, mn, mx, tg) :
     l \in {Absent, Str(<<"5", "0">>), Num(0 - 5)},
     sv \in {Absent, Str(SvcA), Str(Ghost)},
     lb \in {Absent, Str(<<"2", "h">>), Str(<<"x">>)},
     mn \in {Absent, Str(<<"1", "s">>), Str(<<"x">>)},
     mx \in {Absent, Str(<<"1", ".", "1", "s">>), Str(<<>>)},
     tg \in {Absent, Str(<<"a", "=", "a">>), Str(<<"a", "=">>), Num(7)}}

NonObjects == {[EmptyQuery EXCEPT !.kind = k] : k \in {"array", "null", "prim"}}

\* Candidates whose fields other than the tags are valid as they come.
FrameCandidates ==
  {Q(Num(7), sv, Str(<<"2", "h">>), Absent, Str(<<"1", ".", "1", "s">>), tg) :
     sv \in {Absent, Str(SvcA)}, tg \in TagVals}

(***************************************************************************)
(* The validator on its own: every candidate against every catalog.        *)
(***************************************************************************)
InitValidate ==
  /\ ServiceIdle
  /\ ExtractIdle
  /\ RenderIdle
  /\ vOut = NotCalled
  /\ \E cat \in Catalogs :
       /\ vServices = cat.services
       /\ vRoutes = cat.routes
  /\ \/ /\ vVariant = "ts"
        /\ vIn \in FieldCandidates \cup TagCandidates \cup MixedCandidates \cup NonObjects
                  \cup FrameCandidates
     \/ /\ vVariant = "jsx"
        /\ vIn \in TagCandidates \cup MixedCandidates

CallValidateQuery ==
  /\ vOut.status = "none"
  /\ vVariant = "ts"
  /\ vOut' = validateQuery(vIn, vServices, vRoutes)
  /\ UNCHANGED <<vVariant, vIn, vServices, vRoutes, serviceVars, extractVars, renderVars>>

CallValidateQueryBasic ==
  /\ vOut.status = "none"
  /\ vVariant = "jsx"
  /\ vOut' = validateQueryBasic(vIn, vServices)
  /\ UNCHANGED <<vVariant, vIn, vServices, vRoutes, serviceVars, extractVars, renderVars>>

NextValidate == CallValidateQuery \/ CallValidateQueryBasic

SpecValidate == InitValidate /\ [][NextValidate]_vars

(***************************************************************************)
(* What the specification says of a field, stated without the operators of *)
(* the validator.                                                          *)
(***************************************************************************)
IsMissing(v) == v.t \in {"absent", "undefined"}

DurationUnits == {"h", "d", "m", "s"}

AllDigits(str) == str # <<>> /\ \A i \in 1..Len(str) : str[i] \in Digits

\* One or more digits followed by exactly one of h, d, m, s.
WellFormedLookback(str) ==
  /\ Len(str) >= 2
  /\ str[Len(str)] \in DurationUnits
  /\ AllDigits(SubSeq(str, 1, Len(str) - 1))

\* Digits with an optional decimal part, followed by one of h, d, m, s.
WellFormedDuration(str) ==
  /\ Len(str) >= 2
  /\ str[Len(str)] \in DurationUnits
  /\ \/ AllDigits(SubSeq(str, 1, Len(str) - 1))
     \/ \E i \in 2..(Len(str) - 2) :
          /\ str[i] = "."
          /\ AllDigits(SubSeq(str, 1, i - 1))
          /\ AllDigits(SubSeq(str, i + 1, Len(str) - 1))

\* A string from which no leading integer can be read: after white space and
\* one sign, no digit follows.
NoLeadingInteger(str) ==
  ~ \E i \in 1..Len(str) :
      /\ str[i] \in Digits
      /\ \/ \A j \in 1..(i - 1) : str[j] \in WhiteSpace
         \/ /\ i >= 2
            /\ str[i - 1] \in {"+", "-"}
            /\ \A j \in 1..(i - 2) : str[j] \in WhiteSpace

\* A limit the specification calls absent, zero or non-numeric.
LimitDefaults(v) ==
  \/ v.t \in {"absent", "null", "bool", "obj"}
  \/ v = Num(0)
  \/ v.t = "str" /\ NoLeadingInteger(v.s)
  \/ v.t = "str" /\ AllDigits(v.s) /\ DecimalValue(v.s, 1, Len(v.s) + 1) = 0

\* A shape-valid key=value pair: a non-empty key of [a-zA-Z0-9._-], the
\* first '=', and a value that starts right after it: the pair neither ends
\* at the '=' nor goes on with another '='.
ShapeValidPair(pair) ==
  \E i \in 2..(Len(pair) - 1) :
    /\ pair[i] = "="
    /\ pair[i + 1] # "="
    /\ \A j \in 1..(i - 1) : pair[j] \in TagKeyChars

\* The pairs of a tags string: its pieces between white space.
PairsOf(str) ==
  Split([i \in 1..Len(str) |-> IF str[i] \in WhiteSpace THEN " " ELSE str[i]], " ")

\* The key of a pair is what stands before its first '=', its whole value
\* what stands after it.
FirstEq(pair) == CHOOSE i \in 1..Len(pair) : pair[i] = "=" /\ \A j \in 1..(i - 1) : pair[j] # "="
HasEq(pair) == \E i \in 1..Len(pair) : pair[i] = "="
KeyOf(pair) == SubSeq(pair, 1, FirstEq(pair) - 1)
WholeValueOf(pair) == SubSeq(pair, FirstEq(pair) + 1, Len(pair))

ServiceKnown(v, list) ==
  v.t = "str" /\ \E i \in 1..Len(list) : list[i] = v.s

(***************************************************************************)
(* The claims about the validator, checked under SpecValidate.             *)
(***************************************************************************)

\* C4: a candidate whose service is present (a string) and not in the service
\* list is rejected with InvalidServiceError; a known service is returned
\* unchanged; a candidate without service is not rejected for its service.
C4_PresentServiceIsChecked ==
  (vOut.status # "none" /\ vIn.kind = "object") =>
    /\ (vIn.service.t = "str" /\ ~ServiceKnown(vIn.service, vServices))
         => vOut.status = "InvalidServiceError"
    /\ (ServiceKnown(vIn.service, vServices) /\ vOut.status = "ok")
         => vOut.q.service = vIn.service
    /\ vIn.service.t = "absent" => vOut.status # "InvalidServiceError"

\* C5: the returned limit is always a number; it is 100 when the candidate's
\* limit is absent, zero or non-numeric, and the integer value of the limit
\* when that is a string of digits (other than zero).
C5_LimitIsNumberWithDefault ==
  vOut.status = "ok" =>
    /\ IsNumber(vOut.q.limit)
    /\ LimitDefaults(vIn.limit) => vOut.q.limit = Num(100)
    /\ (vIn.limit.t = "str" /\ AllDigits(vIn.limit.s) /\ ~LimitDefaults(vIn.limit))
         => vOut.q.limit = Num(DecimalValue(vIn.limit.s, 1, Len(vIn.limit.s) + 1))

C5_Witness ==
  /\ vOut.status = "ok"
  /\ vIn.limit = Str(<<"5", "0">>)
  /\ vOut.q.limit = Num(50)

\* C6: a lookback string that is malformed (the empty string too) is returned
\* as "1h", a well-formed one unchanged, and the lookback never decides
\* whether the candidate is rejected.
C6_MalformedLookbackBecomes1h ==
  (vOut.status # "none" /\ vVariant = "ts" /\ vIn.lookback.t = "str") =>
    /\ vOut.status = validateQuery([vIn EXCEPT !.lookback = Absent], vServices, vRoutes).status
    /\ vOut.status = "ok" =>
         vOut.q.lookback = IF WellFormedLookback(vIn.lookback.s) THEN vIn.lookback
                           ELSE Str(<<"1", "h">>)

\* C7: a minDuration or maxDuration string that is malformed (the empty string
\* too) is missing from the returned query, a well-formed one is returned
\* unchanged, each field whatever the other is.
C7_MalformedDurationIsRemoved ==
  vOut.status = "ok" =>
    /\ vIn.minDuration.t = "str" =>
         IF WellFormedDuration(vIn.minDuration.s) THEN vOut.q.minDuration = vIn.minDuration
         ELSE IsMissing(vOut.q.minDuration)
    /\ vIn.maxDuration.t = "str" =>
         IF WellFormedDuration(vIn.maxDuration.s) THEN vOut.q.maxDuration = vIn.maxDuration
         ELSE IsMissing(vOut.q.maxDuration)

\* C8: the returned tags are exactly the shape-valid pairs of the tags string,
\* split on white space, in order and joined by single spaces; when no pair is
\* left the tags field is missing, not an empty string.
C8_TagsAreTheShapeValidPairs ==
  (vOut.status = "ok" /\ vVariant = "jsx" /\ vIn.tags.t = "str") =>
    LET kept == SelectSeq(PairsOf(vIn.tags.s), ShapeValidPair)
    IN  IF kept = <<>> THEN IsMissing(vOut.q.tags)
        ELSE vOut.q.tags = Str(Join(kept, " "))

\* C9: in the route-aware validator a returned pair whose key is exactly
\* http.route has a whole value (all that follows its first '=') that is one of
\* the cached routes of the query's service.
C9_ReturnedRouteIsACachedRoute ==
  (vOut.status = "ok" /\ vVariant = "ts" /\ vOut.q.tags.t = "str"
     /\ ServiceKnown(vOut.q.service, vServices)) =>
    \A i \in 1..Len(Split(vOut.q.tags.s, " ")) :
      LET pair == Split(vOut.q.tags.s, " ")[i]
      IN  (HasEq(pair) /\ KeyOf(pair) = HttpRoute) =>
            /\ vRoutes[vOut.q.service.s].def
            /\ \E k \in 1..Len(vRoutes[vOut.q.service.s].routes) :
                 vRoutes[vOut.q.service.s].routes[k] = WholeValueOf(pair)

(***************************************************************************)
(* JSON.parse, character by character.  The grammar is JSON's, without the *)
(* exponent of a number and with the escapes \" \\ \/ \t \n only.  A       *)
(* parse gives the value (val), and for an object the fields validateQuery *)
(* reads (q); an object or array inside a field is kept as Obj.            *)
(***************************************************************************)
KeyLimit == <<"l", "i", "m", "i", "t">>
KeyService == <<"s", "e", "r", "v", "i", "c", "e">>
KeyLookback == <<"l", "o", "o", "k", "b", "a", "c", "k">>
KeyMinDuration == <<"m", "i", "n", "D", "u", "r", "a", "t", "i", "o", "n">>
KeyMaxDuration == <<"m", "a", "x", "D", "u", "r", "a", "t", "i", "o", "n">>
KeyTags == <<"t", "a", "g", "s">>

\* obj[key] = val, for the keys the validator reads; a later member with the
\* same key replaces an earlier one.
SetField(q, key, val) ==
  CASE key = KeyLimit -> [q EXCEPT !.limit = val]
    [] key = KeyService -> [q EXCEPT !.service = val]
    [] key = KeyLookback -> [q EXCEPT !.lookback = val]
    [] key = KeyMinDuration -> [q EXCEPT !.minDuration = val]
    [] key = KeyMaxDuration -> [q EXCEPT !.maxDuration = val]
    [] key = KeyTags -> [q EXCEPT !.tags = val]
    [] OTHER -> q

ParseFail == [ok |-> FALSE, next |-> 0, kind |-> "none", val |-> Absent, q |-> EmptyQuery]
ParseOk(next, kind, val, q) == [ok |-> TRUE, next |-> next, kind |-> kind, val |-> val, q |-> q]

At(str, i, c) == i <= Len(str) /\ str[i] = c

\* Whether the characters of word stand in str from index i on.
WordAt(str, i, word) ==
  /\ i + Len(word) - 1 <= Len(str)
  /\ \A k \in 1..Len(word) : str[i + k - 1] = word[k]

Unescape(c) == CASE c = "t" -> "\t" [] c = "n" -> "\n" [] OTHER -> c

RECURSIVE ParseStringBody(_, _, _)
\* The rest of a string literal, from index j, up to its closing quote.
ParseStringBody(str, j, acc) ==
  IF j > Len(str) THEN ParseFail
  ELSE IF str[j] = "\"" THEN ParseOk(j + 1, "prim", Str(acc), EmptyQuery)
  ELSE IF str[j] = "\\" THEN
    IF j + 1 <= Len(str) /\ str[j + 1] \in {"\"", "\\", "/", "t", "n"}
    THEN ParseStringBody(str, j + 2, Append(acc, Unescape(str[j + 1])))
    ELSE ParseFail
  ELSE IF str[j] \in {"\t", "\n", "\r"} THEN ParseFail
  ELSE ParseStringBody(str, j + 1, Append(acc, str[j]))

\* A number literal at index i: -? (0 | [1-9][0-9]*) (. [0-9]+)?
ParseNumber(str, i) ==
  LET neg == At(str, i, "-")
      a == IF neg THEN i + 1 ELSE i
      b == IF At(str, a, "0") THEN a + 1 ELSE DigitRun(str, a)
      hasFrac == At(str, b, ".")
      c == IF hasFrac THEN DigitRun(str, b + 1) ELSE b
      mag == DecimalValue(str, a, b)
      whole == (~hasFrac) \/ DecimalValue(str, b + 1, c) = 0
  IN  IF b = a \/ (hasFrac /\ c = b + 1) THEN ParseFail
      ELSE IF whole THEN ParseOk(c, "prim", Num(IF neg THEN 0 - mag ELSE mag), EmptyQuery)
      ELSE ParseOk(c, "prim", Frac(mag), EmptyQuery)

\* The one element of a singleton set; {F(x) : x \in {e}} computes e once.
Only(S) == CHOOSE x \in S : TRUE

RECURSIVE ParseValue(_, _)
RECURSIVE ParseMembers(_, _, _)
RECURSIVE ParseElements(_, _)

\* After the member key: v at index i of str, the object goes on with a
\* comma or ends with '}'.
MemberEnd(str, q, key, v) ==
  IF ~v.ok THEN ParseFail
  ELSE IF At(str, v.next, ",") THEN ParseMembers(str, v.next + 1, SetField(q, key.val.s, v.val))
  ELSE IF At(str, v.next, "}")
    THEN ParseOk(v.next + 1, "object", Obj, SetField(q, key.val.s, v.val))
  ELSE ParseFail

\* The value of the member whose key string was read as key.
MemberValue(str, q, key) ==
  IF key.ok /\ At(str, SkipWhiteSpace(str, key.next), ":")
  THEN Only({MemberEnd(str, q, key, v) :
               v \in {ParseValue(str, SkipWhiteSpace(str, key.next) + 1)}})
  ELSE ParseFail

\* The members of an object from index i (a key's string literal is
\* expected there, after white space), collected in q.
ParseMembers(str, i, q) ==
  Only({ IF At(str, a, "\"")
         THEN Only({MemberValue(str, q0, key) :
                      key \in {ParseStringBody(str, a + 1, <<>>)}, q0 \in {q}})
         ELSE ParseFail : a \in {SkipWhiteSpace(str, i)} })

\* After the element v of an array.
ElementEnd(str, v) ==
  IF ~v.ok THEN ParseFail
  ELSE IF At(str, v.next, ",") THEN ParseElements(str, v.next + 1)
  ELSE IF At(str, v.next, "]") THEN ParseOk(v.next + 1, "array", Obj, EmptyQuery)
  ELSE ParseFail

\* The elements of an array from index i.
ParseElements(str, i) == Only({ElementEnd(str, v) : v \in {ParseValue(str, i)}})

\* The value that starts at index a, where no white space stands.
ParseValueAt(str, a) ==
  IF a > Len(str) THEN ParseFail
  ELSE IF str[a] = "{" THEN
    IF At(str, SkipWhiteSpace(str, a + 1), "}")
    THEN ParseOk(SkipWhiteSpace(str, a + 1) + 1, "object", Obj, EmptyQuery)
    ELSE ParseMembers(str, a + 1, EmptyQuery)
  ELSE IF str[a] = "[" THEN
    IF At(str, SkipWhiteSpace(str, a + 1), "]")
    THEN ParseOk(SkipWhiteSpace(str, a + 1) + 1, "array", Obj, EmptyQuery)
    ELSE ParseElements(str, a + 1)
  ELSE IF str[a] = "\"" THEN ParseStringBody(str, a + 1, <<>>)
  ELSE IF str[a] \in Digits \cup {"-"} THEN ParseNumber(str, a)
  ELSE IF WordAt(str, a, <<"t", "r", "u", "e">>)
    THEN ParseOk(a + 4, "prim", Bool(TRUE), EmptyQuery)
  ELSE IF WordAt(str, a, <<"f", "a", "l", "s", "e">>)
    THEN ParseOk(a + 5, "prim", Bool(FALSE), EmptyQuery)
  ELSE IF WordAt(str, a, <<"n", "u", "l", "l">>)
    THEN ParseOk(a + 4, "null", Null, EmptyQuery)
  ELSE ParseFail

\* The white space after a value belongs to it.
TrailingSpace(str, r) ==
  IF r.ok THEN [r EXCEPT !.next = SkipWhiteSpace(str, r.next)] ELSE ParseFail

\* A value with the white space around it, from index i.
ParseValue(str, i) ==
  Only({TrailingSpace(str, r) :
          r \in {Only({ParseValueAt(str, a) : a \in {SkipWhiteSpace(str, i)}})}})

\* JSON.parse(text): ok is FALSE where it throws a SyntaxError; q is the value
\* as validateQuery will see it.
WholeValue(text, r) ==
  IF r.ok /\ r.next = Len(text) + 1
  THEN [ok |-> TRUE, q |-> [r.q EXCEPT !.kind = r.kind]]
  ELSE [ok |-> FALSE, q |-> EmptyQuery]

JSONParse(text) == Only({WholeValue(text, r) : r \in {ParseValue(text, 1)}})

(***************************************************************************)
(* translateQuery lines 198-210: the JSON of the generated text.           *)
(***************************************************************************)
RECURSIVE IndexFrom(_, _, _)
\* The first index at or after i that holds c, or 0.
IndexFrom(str, c, i) ==
  IF i > Len(str) THEN 0
  ELSE IF str[i] = c THEN i
  ELSE IndexFrom(str, c, i + 1)

RECURSIVE LastIndexDownTo(_, _, _, _)
\* The last index in lo..hi that holds c, or 0.
LastIndexDownTo(str, c, hi, lo) ==
  IF hi < lo THEN 0
  ELSE IF str[hi] = c THEN hi
  ELSE LastIndexDownTo(str, c, hi - 1, lo)

NoMatch == [found |-> FALSE, text |-> <<>>]

\* A lazy quantifier, /\{[\s\S]*?\}/: the match ends at the first '}'.
matchBracesLazy(text) ==
  LET a == IndexFrom(text, "{", 1)
      b == IF a = 0 THEN 0 ELSE IndexFrom(text, "}", a + 1)
  IN  IF a = 0 \/ b = 0 THEN NoMatch
      ELSE [found |-> TRUE, text |-> SubSeq(text, a, b)]

\* text.match(/\{[\s\S]*\}/): the leftmost '{', then as many characters as
\* possible while a '}' still ends the match.
matchBraces(text) ==
  LET a == IndexFrom(text, "{", 1)
      b == IF a = 0 THEN 0 ELSE LastIndexDownTo(text, "}", Len(text), a + 1)
  IN  IF a = 0 \/ b = 0 THEN NoMatch
      ELSE [found |-> TRUE, text |-> SubSeq(text, a, b)]

\* Lines 199-210: the whole text is parsed, and when that throws, the text
\* the regular expression matches; the errors of lines 207 and 209 are the
\* specification's MalformedResponseError.
extractJSON(text) ==
  LET whole == JSONParse(text)
      jsonMatch == matchBraces(text)
      inner == JSONParse(jsonMatch.text)
  IN  IF whole.ok THEN Returned(whole.q)
      ELSE IF ~jsonMatch.found THEN Thrown("MalformedResponseError", EmptyQuery)
      ELSE IF inner.ok THEN Returned(inner.q)
      ELSE Thrown("MalformedResponseError", EmptyQuery)

(***************************************************************************)
(* The extraction on its own: every generated text built from a few        *)
(* pieces of JSON and of prose.                                            *)
(***************************************************************************)
MaxTextFrags == 5

Quoted(chars) == <<"\"">> \o chars \o <<"\"">>

\* "limit":5 and "tags": as they stand in a JSON object.
MemberLimit5 == Quoted(KeyLimit) \o <<":", "5">>
KeyTagsColon == Quoted(KeyTags) \o <<":">>

TextFrags == {<<"{">>, <<"}">>, <<"x">>, <<"7">>, MemberLimit5, KeyTagsColon}

GeneratedTexts == {Concat(fs) : fs \in StrsUpTo(TextFrags, MaxTextFrags)}

InitExtract ==
  /\ ServiceIdle
  /\ ValidateIdle
  /\ RenderIdle
  /\ xText \in GeneratedTexts
  /\ xOut = NotCalled

CallExtractJSON ==
  /\ xOut.status = "none"
  /\ xOut' = extractJSON(xText)
  /\ UNCHANGED <<xText, serviceVars, validateVars, renderVars>>

NextExtract == CallExtractJSON

SpecExtract == InitExtract /\ [][NextExtract]_vars

\* The first '{' of a text and its last '}'.
HasBraceSpan(text) ==
  \E i, j \in 1..Len(text) : i < j /\ text[i] = "{" /\ text[j] = "}"
FirstOpen(text) ==
  CHOOSE i \in 1..Len(text) : text[i] = "{" /\ \A k \in 1..(i - 1) : text[k] # "{"
LastClose(text) ==
  CHOOSE j \in 1..Len(text) : text[j] = "}" /\ \A k \in (j + 1)..Len(text) : text[k] # "}"

\* The number of '{' less the number of '}' in text[i..j].
BraceDepth(text, i, j) ==
  Cardinality({k \in i..j : text[k] = "{"}) - Cardinality({k \in i..j : text[k] = "}"})

\* The '}' that closes the first '{': the first place where the braces
\* opened since then are all closed.
HasMatchingClose(text) ==
  \E i \in 1..Len(text) : text[i] = "{" /\
    \E j \in i..Len(text) : BraceDepth(text, FirstOpen(text), j) = 0
MatchingClose(text) ==
  CHOOSE j \in FirstOpen(text)..Len(text) :
    /\ BraceDepth(text, FirstOpen(text), j) = 0
    /\ \A k \in FirstOpen(text)..(j - 1) : BraceDepth(text, FirstOpen(text), k) # 0

\* What the extraction must end with when the fallback is the text span.
ExtractionIs(out, text, span) ==
  IF JSONParse(text).ok THEN out = Returned(JSONParse(text).q)
  ELSE IF span.found /\ JSONParse(span.text).ok THEN out = Returned(JSONParse(span.text).q)
  ELSE out.status = "MalformedResponseError"

\* C10, as stated: the whole text is used when it parses; otherwise the span
\* from the first '{' to the '}' that matches it; MalformedResponseError when
\* neither parses.
C10_FallbackIsTheMatchingSpan ==
  xOut.status # "none" =>
    ExtractionIs(xOut, xText,
      IF HasMatchingClose(xText)
      THEN [found |-> TRUE, text |-> SubSeq(xText, FirstOpen(xText), MatchingClose(xText))]
      ELSE NoMatch)

\* C10, amended: the whole text is used when it parses; otherwise the span
\* from the first '{' to the last '}' of the text; MalformedResponseError
\* when there is no such span or it does not parse.
C10_FallbackIsFirstOpenToLastClose ==
  xOut.status # "none" =>
    ExtractionIs(xOut, xText,
      IF HasBraceSpan(xText) /\ FirstOpen(xText) < LastClose(xText)
      THEN [found |-> TRUE, text |-> SubSeq(xText, FirstOpen(xText), LastClose(xText))]
      ELSE NoMatch)

\* An object wrapped in prose on both sides is recovered.
C10_Witness ==
  /\ xOut.status = "ok"
  /\ xText = <<"x", "{">> \o MemberLimit5 \o <<"}", "x">>
  /\ xOut.q.kind = "object"
  /\ xOut.q.limit = Num(5)

(***************************************************************************)
(* The translateQuery calls on the shared service object.  A call runs     *)
(* from one await to the next in one step; what the network answers is     *)
(* chosen when the answer arrives.                                         *)
(***************************************************************************)
\* context.selectedService as handleSubmit passes it: undefined, a service of
\* the catalog, or one the catalog does not hold.
Contexts == {Absent, Str(SvcA), Str(Ghost)}

\* How a fetch can end other than with a 2xx response.
HealthFailures == {"status", "timeout", "network"}
MetadataFailures == {"status", "network"}
GenerationFailures == {"status", "timeout", "network"}

\* data.data of the service list and of a service's operations (operations
\* without routes are recorded as a failed request is: as []).
ServiceLists == {<<>>, <<SvcA>>, <<SvcA, SvcB>>}
RouteLists == {<<RouteA>>}

\* How an operations request ends: a 2xx response with data.data, or not.
OperationsAnswers ==
  {[ok |-> FALSE, data |-> <<>>]} \cup {[ok |-> TRUE, data |-> rs] : rs \in RouteLists}

\* The text of a JSON value, as the generation model may write it.
ValueText(v) ==
  CASE v.t = "str" -> Quoted(v.s)
    [] v.t = "bool" -> ToStringChars(v)
    [] v.t = "null" -> ToStringChars(v)
    [] v.t = "obj" -> <<"{", "}">>
    [] OTHER -> ToStringChars(v)

MemberText(key, v) == IF v.t = "absent" THEN <<>> ELSE <<Quoted(key) \o <<":">> \o ValueText(v)>>

\* Concat with a comma between the pieces.
RECURSIVE CommaJoin(_)
CommaJoin(parts) ==
  IF parts = <<>> THEN <<>>
  ELSE IF Len(parts) = 1 THEN parts[1]
  ELSE parts[1] \o <<",">> \o CommaJoin(Tail(parts))

ObjectText(q) ==
  <<"{">> \o CommaJoin(MemberText(KeyService, q.service) \o MemberText(KeyTags, q.tags)
                        \o MemberText(KeyLookback, q.lookback)
                        \o MemberText(KeyMinDuration, q.minDuration)
                        \o MemberText(KeyMaxDuration, q.maxDuration)
                        \o MemberText(KeyLimit, q.limit)) \o <<"}">>

\* The candidates the generation model answers with in the calls.
ExampleQuery ==
  Q(Num(100), Str(SvcA), Str(<<"2", "h">>), Str(<<"1", "s">>), Absent, Absent)

AnsweredQueries ==
  { ExampleQuery,
    Q(Str(<<"5", "0">>), Str(SvcA), Str(<<"s", "o", "o", "n">>), Absent, Str(<<"x">>),
      Str(HttpRoute \o <<"=">> \o RouteA)),
    Q(Absent, Str(Ghost), Absent, Absent, Absent, Absent),
    Q(Num(0 - 5), Absent, Absent, Absent, Absent, Absent),
    Q(Absent, Absent, Absent, Absent, Absent, Num(7)) }

Prose == <<"S", "u", "r", "e", ":", " ">>

\* data.response: an object alone or in prose, a value that is no object,
\* and texts without JSON.
ResponseTexts ==
  {ObjectText(q) : q \in AnsweredQueries}
  \cup {Prose \o ObjectText(ExampleQuery) \o <<" ", "o", "k">>,
        ObjectText(ExampleQuery) \o <<" ", "{", "o", "k", "}">>,
        <<"n", "u", "l", "l">>, <<"[", "]">>, Prose}

\* What a call ends with, and the catalog at that moment.
Ended(r) == [status |-> r.status, q |-> r.q, services |-> services, routes |-> serviceRoutes]
EndedWith(r, svcs, routes) == [status |-> r.status, q |-> r.q, services |-> svcs, routes |-> routes]

\* The events of a call, in the order they happen: a request sent to an
\* endpoint, the answer to it (result "ok" for a 2xx response; a fetch that
\* failed, however it did, ends the same way, and only the health check's
\* way is kept), and the steps the call takes on its own after an answer.
\* The answers to the operations requests, which may come in any order, are
\* kept in operations.
Request(kind, service) == <<kind, service, "request">>
Answer(kind, service, result) == <<kind, service, result>>
Step(kind, result) == <<kind, <<>>, result>>

\* Lines 167-171: servicesInfo reads serviceRoutes[...].join, which throws a
\* TypeError when the routes of the selected service, or of a service of the
\* list, are undefined.
servicesInfoThrows(selected, svcs, routes) ==
  IF Truthy(selected) THEN ~RoutesOf(routes, selected.s).def
  ELSE \E i \in 1..Len(svcs) : ~RoutesOf(routes, svcs[i]).def

(***************************************************************************)
(* The prompt, lines 166-179.                                              *)
(***************************************************************************)
\* SYSTEM_PROMPT, lines 13-97, around its two placeholders.  The text of the
\* instructions, rules and examples is shortened: like the original it holds
\* braces and quotes, no '$', and no further occurrence of a placeholder.
TemplateHead ==
  <<"#", "#", "#", " ", "A", "v", "a", "i", "l", "a", "b", "l", "e", " ",
    "S", "e", "r", "v", "i", "c", "e", "s", " ", "a", "n", "d", " ", "R",
    "o", "u", "t", "e", "s", ":", "\n">>
ServicesPlaceholder ==
  <<"{", "s", "e", "r", "v", "i", "c", "e", "s", "}">>
TemplateRules ==
  <<"\n", "\n", "#", "#", "#", " ", "R", "u", "l", "e", "s", ":", "\n", "-",
    " ", "R", "e", "s", "p", "o", "n", "d", " ", "w", "i", "t", "h", " ",
    "O", "N", "L", "Y", " ", "t", "h", "e", " ", "J", "S", "O", "N", " ",
    "o", "b", "j", "e", "c", "t", ".", "\n", "#", "#", "#", "#", " ", "I",
    "n", "p", "u", "t", ":", " ", "\"", "s", "l", "o", "w", "e", "s", "t",
    " ", "t", "r", "a", "c", "e", "s", "\"", "\n", "#", "#", "#", "#", " ",
    "O", "u", "t", "p", "u", "t", ":", "\n", "{", "\n", " ", " ", "\"", "l",
    "i", "m", "i", "t", "\"", ":", " ", "1", "0", "0", "\n", "}", "\n", "\n",
    "#", "#", "#", " ", "I", "n", "p", "u", "t", ":", "\n", "\"">>
QueryPlaceholder ==
  <<"{", "q", "u", "e", "r", "y", "}">>
TemplateTail ==
  <<"\"", "\n", "#", "#", "#", " ", "O", "u", "t", "p", "u", "t", ":", "\n">>
SYSTEM_PROMPT ==
  TemplateHead \o ServicesPlaceholder \o TemplateRules \o QueryPlaceholder \o TemplateTail

RECURSIVE JoinWith(_, _)
\* Array.prototype.join with a separator of any length.
JoinWith(list, sep) ==
  IF list = <<>> THEN <<>>
  ELSE IF Len(list) = 1 THEN list[1]
  ELSE list[1] \o sep \o JoinWith(Tail(list), sep)

SelectedServiceLabel ==
  <<"S", "e", "l", "e", "c", "t", "e", "d", " ", "s", "e", "r", "v", "i",
    "c", "e", ":", " ">>
AvailableRoutesLabel ==
  <<"\n", "A", "v", "a", "i", "l", "a", "b", "l", "e", " ", "r", "o", "u",
    "t", "e", "s", ":", " ">>
RoutesOpen ==
  <<" ", "(", "r", "o", "u", "t", "e", "s", ":", " ">>
CommaSpace == <<",", " ">>

\* Lines 166-171, when no join throws: the view of the selected service, or
\* one line for each service of the list.
servicesInfo(selected, svcs, routes) ==
  IF Truthy(selected)
  THEN SelectedServiceLabel \o ToStringChars(selected) \o AvailableRoutesLabel
         \o JoinWith(RoutesOf(routes, selected.s).routes, CommaSpace)
  ELSE JoinWith([i \in 1..Len(svcs) |->
                   svcs[i] \o RoutesOpen
                     \o JoinWith(RoutesOf(routes, svcs[i]).routes, CommaSpace) \o <<")">>],
                <<"\n">>)

\* String.prototype.indexOf, counted from 1; 0 when pattern does not occur.
IndexOf(str, pattern) ==
  LET at == {i \in 1..(Len(str) + 1 - Len(pattern)) :
               SubSeq(str, i, i + Len(pattern) - 1) = pattern}
  IN  IF at = {} THEN 0 ELSE CHOOSE i \in at : \A j \in at : i <= j

\* The grave accent, a character that a TLA+ string cannot hold.
Grave == "grave"

RECURSIVE GetSubstitution(_, _, _, _)
\* The replacement text of String.prototype.replace for a string pattern
\* (no captures): $$ is a dollar sign, $& the matched text, $ with a grave
\* accent the text before the match, $ with an apostrophe the text after
\* it; any other $ stands for itself.
GetSubstitution(matched, str, position, replacement) ==
  IF replacement = <<>> THEN <<>>
  ELSE IF replacement[1] = "$" /\ Len(replacement) >= 2
            /\ replacement[2] \in {"$", "&", Grave, "'"}
  THEN (CASE replacement[2] = "$" -> <<"$">>
          [] replacement[2] = "&" -> matched
          [] replacement[2] = Grave -> SubSeq(str, 1, position - 1)
          [] OTHER -> SubSeq(str, position + Len(matched), Len(str)))
         \o GetSubstitution(matched, str, position, Tail(Tail(replacement)))
  ELSE <<replacement[1]>> \o GetSubstitution(matched, str, position, Tail(replacement))

\* str.replace(pattern, replacement) with a string pattern: the first
\* occurrence only.
replace(str, pattern, replacement) ==
  LET position == IndexOf(str, pattern)
  IN  IF position = 0 THEN str
      ELSE SubSeq(str, 1, position - 1)
             \o GetSubstitution(pattern, str, position, replacement)
             \o SubSeq(str, position + Len(pattern), Len(str))

\* Lines 166-179: the prompt of the request body, or the TypeError of a join
\* on undefined routes.
renderPrompt(query, selected, svcs, routes) ==
  IF servicesInfoThrows(selected, svcs, routes)
  THEN [status |-> "TypeError", text |-> <<>>]
  ELSE [status |-> "ok",
        text |-> replace(replace(SYSTEM_PROMPT, ServicesPlaceholder,
                                 servicesInfo(selected, svcs, routes)),
                         QueryPlaceholder, query)]

MaxQueryFrags == 2

\* What the text of a user is made of: plain text, the placeholders, and the
\* replacement patterns.
QueryFrags ==
  {<<"a">>, QueryPlaceholder, ServicesPlaceholder,
   <<"$", "&">>, <<"$", "$">>, <<"$", Grave>>, <<"$", "'">>, <<"$", "1">>}

QueryTexts == {Concat(fs) : fs \in StrsUpTo(QueryFrags, MaxQueryFrags)}

RouteQuery == <<"/">> \o QueryPlaceholder
RouteAmp == <<"/", "$", "&">>

\* Catalogs as fetchServices leaves them, with routes as the API names them.
RenderCatalogs ==
  {[services |-> <<SvcA>>, routes |-> (SvcA :> Fetched(rs)) @@ NoRoutes] :
     rs \in {<<>>, <<RouteA>>, <<RouteA, RouteQuery>>, <<RouteAmp>>}}
  \cup {[services |-> <<SvcA, SvcB>>,
         routes |-> (SvcA :> Fetched(<<RouteA>>)) @@ (SvcB :> Fetched(<<RouteA, RouteA>>))],
        [services |-> <<SvcA>>, routes |-> NoRoutes]}

InitRender ==
  /\ ServiceIdle
  /\ ValidateIdle
  /\ ExtractIdle
  /\ pQuery \in QueryTexts
  /\ pContext \in Contexts
  /\ \E cat \in RenderCatalogs :
       /\ pServices = cat.services
       /\ pRoutes = cat.routes
  /\ pPrompt = NotRendered

CallRenderPrompt ==
  /\ pPrompt.status = "none"
  /\ pPrompt' = renderPrompt(pQuery, pContext, pServices, pRoutes)
  /\ UNCHANGED <<pQuery, pContext, pServices, pRoutes, serviceVars, validateVars, extractVars>>

NextRender == CallRenderPrompt

SpecRender == InitRender /\ [][NextRender]_vars

\* Lines 166-189: with the catalog svcs/routes the call renders the prompt
\* and issues the generation request, or ends with the TypeError; seen is
\* the call's log up to here.
RenderAndGenerate(c, svcs, routes, seen) ==
  IF servicesInfoThrows(ctx[c], svcs, routes)
  THEN /\ pc' = [pc EXCEPT ![c] = "done"]
       /\ outcome' = [outcome EXCEPT ![c] = EndedWith(Thrown("TypeError", EmptyQuery), svcs, routes)]
       /\ log' = [log EXCEPT ![c] = Append(seen, Step("render", "TypeError"))]
  ELSE /\ pc' = [pc EXCEPT ![c] = "generate"]
       /\ outcome' = outcome
       /\ log' = [log EXCEPT ![c] = seen \o <<Step("render", "ok"), Request("generate", <<>>)>>]

\* translateQuery is called: the health request goes out (line 147).  The
\* calls are numbered in the order they are made.
translateQuery(c) ==
  /\ pc[c] = "idle"
  /\ \A d \in Calls : d < c => pc[d] # "idle"
  /\ \E selected \in Contexts : ctx' = [ctx EXCEPT ![c] = selected]
  /\ pc' = [pc EXCEPT ![c] = "health"]
  /\ log' = [log EXCEPT ![c] = Append(@, Request("health", <<>>))]
  /\ UNCHANGED <<services, serviceRoutes, operations, health, outcome, validateVars, extractVars, renderVars>>

\* The health check without the test of healthCheck.ok (line 151): a non-2xx
\* response lets the call go on.
healthCheckFailsOkUntested(c) ==
  /\ pc[c] = "health"
  /\ \E r \in HealthFailures :
       /\ health' = [health EXCEPT ![c] = r]
       /\ IF r = "status"
          THEN RenderAndGenerate(c, services, serviceRoutes,
                                 Append(log[c], Answer("health", <<>>, r)))
          ELSE /\ pc' = [pc EXCEPT ![c] = "done"]
               /\ outcome' = [outcome EXCEPT ![c] =
                                Ended(Thrown("BackendUnavailableError", EmptyQuery))]
               /\ log' = [log EXCEPT ![c] = Append(@, Answer("health", <<>>, r))]
  /\ UNCHANGED <<services, serviceRoutes, ctx, operations, validateVars, extractVars, renderVars>>

\* A liveness that is cached: a failed health check is passed over when the
\* health check of another call has succeeded.
healthCheckFailsUnlessSeenAlive(c) ==
  /\ pc[c] = "health"
  /\ \E r \in HealthFailures :
       /\ health' = [health EXCEPT ![c] = r]
       /\ IF \E d \in Calls : health[d] = "ok"
          THEN RenderAndGenerate(c, services, serviceRoutes,
                                 Append(log[c], Answer("health", <<>>, r)))
          ELSE /\ pc' = [pc EXCEPT ![c] = "done"]
               /\ outcome' = [outcome EXCEPT ![c] =
                                Ended(Thrown("BackendUnavailableError", EmptyQuery))]
               /\ log' = [log EXCEPT ![c] = Append(@, Answer("health", <<>>, r))]
  /\ UNCHANGED <<services, serviceRoutes, ctx, operations, validateVars, extractVars, renderVars>>

\* A health check that is tried again when it fails.
healthCheckFailsRetried(c) ==
  /\ pc[c] = "health"
  /\ \E r \in HealthFailures :
       /\ health' = [health EXCEPT ![c] = r]
       /\ log' = [log EXCEPT ![c] = @ \o <<Answer("health", <<>>, r), Request("health", <<>>)>>]
  /\ UNCHANGED <<services, serviceRoutes, pc, ctx, operations, outcome, validateVars,
                 extractVars, renderVars>>

\* Lines 151-159 on a failed health check: whatever failed, the call throws
\* the "Ollama service is not available" error.
healthCheckFails(c) ==
  /\ pc[c] = "health"
  /\ \E r \in HealthFailures :
       /\ health' = [health EXCEPT ![c] = r]
       /\ log' = [log EXCEPT ![c] = Append(@, Answer("health", <<>>, r))]
  /\ pc' = [pc EXCEPT ![c] = "done"]
  /\ outcome' = [outcome EXCEPT ![c] = Ended(Thrown("BackendUnavailableError", EmptyQuery))]
  /\ UNCHANGED <<services, serviceRoutes, ctx, operations, validateVars, extractVars, renderVars>>

\* A 2xx health check followed by fetchServices whatever this.services holds.
healthCheckOkAlwaysFetches(c) ==
  /\ pc[c] = "health"
  /\ health' = [health EXCEPT ![c] = "ok"]
  /\ pc' = [pc EXCEPT ![c] = "services"]
  /\ log' = [log EXCEPT ![c] = @ \o <<Answer("health", <<>>, "ok"), Request("services", <<>>)>>]
  /\ UNCHANGED <<services, serviceRoutes, ctx, operations, outcome, validateVars, extractVars, renderVars>>

\* Lines 151-164 on a 2xx health check: the service list is requested when
\* this.services is empty (fetchServices, line 111), else the prompt is built.
healthCheckOk(c) ==
  /\ pc[c] = "health"
  /\ health' = [health EXCEPT ![c] = "ok"]
  /\ LET seen == Append(log[c], Answer("health", <<>>, "ok"))
     IN  IF Len(services) = 0
         THEN /\ pc' = [pc EXCEPT ![c] = "services"]
              /\ log' = [log EXCEPT ![c] = Append(seen, Request("services", <<>>))]
              /\ outcome' = outcome
         ELSE RenderAndGenerate(c, services, serviceRoutes, seen)
  /\ UNCHANGED <<services, serviceRoutes, ctx, operations, validateVars, extractVars, renderVars>>

\* fetchServices with a catch block like that of fetchServiceOperations: the
\* failure is logged and the call goes on with the catalog as it is.
fetchServicesFailsSwallowed(c) ==
  /\ pc[c] = "services"
  /\ \E r \in MetadataFailures :
       RenderAndGenerate(c, services, serviceRoutes,
                         Append(log[c], Answer("services", <<>>, "failed")))
  /\ UNCHANGED <<services, serviceRoutes, ctx, operations, health, validateVars, extractVars, renderVars>>

\* fetchServices lines 112-114, 122-125: the list request failed.
fetchServicesFails(c) ==
  /\ pc[c] = "services"
  /\ \E r \in MetadataFailures :
       log' = [log EXCEPT ![c] = Append(@, Answer("services", <<>>, "failed"))]
  /\ outcome' = [outcome EXCEPT ![c] = Ended(Thrown("MetadataFetchError", EmptyQuery))]
  /\ pc' = [pc EXCEPT ![c] = "done"]
  /\ UNCHANGED <<services, serviceRoutes, ctx, operations, health, validateVars, extractVars, renderVars>>

RECURSIVE OperationRequests(_)
OperationRequests(list) ==
  IF list = <<>> THEN <<>>
  ELSE <<Request("operations", Head(list))>> \o OperationRequests(Tail(list))

\* fetchServices without the await of line 119: the operations are requested
\* and the call goes on at once.
fetchServicesOkUnawaited(c) ==
  /\ pc[c] = "services"
  /\ \E list \in ServiceLists :
       /\ services' = list
       /\ operations' = [operations EXCEPT ![c] =
            [s \in ServiceNames |->
               IF \E i \in 1..Len(list) : list[i] = s THEN "pending" ELSE "none"]]
       /\ RenderAndGenerate(c, list, serviceRoutes,
                            Append(log[c], Answer("services", <<>>, "ok"))
                              \o OperationRequests(list))
  /\ UNCHANGED <<serviceRoutes, ctx, health, validateVars, extractVars, renderVars>>

\* fetchServices lines 115-119: the list is stored and the operations of
\* every service are requested at once; with an empty list nothing is awaited.
fetchServicesOk(c) ==
  /\ pc[c] = "services"
  /\ \E list \in ServiceLists :
       LET seen == Append(log[c], Answer("services", <<>>, "ok"))
       IN  /\ services' = list
           /\ IF list = <<>>
              THEN /\ RenderAndGenerate(c, list, serviceRoutes, seen)
                   /\ operations' = operations
              ELSE /\ pc' = [pc EXCEPT ![c] = "operations"]
                   /\ log' = [log EXCEPT ![c] = seen \o OperationRequests(list)]
                   /\ operations' = [operations EXCEPT ![c] =
                        [s \in ServiceNames |->
                           IF \E i \in 1..Len(list) : list[i] = s THEN "pending" ELSE "none"]]
                   /\ outcome' = outcome
  /\ UNCHANGED <<serviceRoutes, ctx, health, validateVars, extractVars, renderVars>>

\* fetchServiceOperations under a Promise.race in place of the Promise.all of
\* line 119: fetchServices returns when the first request has settled.
fetchServiceOperationsFirstSettles(c, service) ==
  /\ pc[c] = "operations"
  /\ operations[c][service] = "pending"
  /\ \E r \in OperationsAnswers :
       LET routes == [serviceRoutes EXCEPT
                        ![service] = Fetched(IF r.ok THEN r.data ELSE <<>>)]
           settled == [operations[c] EXCEPT ![service] = IF r.ok THEN "ok" ELSE "failed"]
       IN  /\ serviceRoutes' = routes
           /\ operations' = [operations EXCEPT ![c] = settled]
           /\ RenderAndGenerate(c, services, routes, log[c])
  /\ UNCHANGED <<services, ctx, health, validateVars, extractVars, renderVars>>

\* fetchServiceOperations lines 131-139 for one service: its routes are
\* stored, or [] when the request failed; when it was the last one awaited,
\* fetchServices returns and the call goes on with the prompt.
fetchServiceOperations(c, service) ==
  /\ pc[c] = "operations"
  /\ operations[c][service] = "pending"
  /\ \E r \in OperationsAnswers :
       LET routes == [serviceRoutes EXCEPT
                        ![service] = Fetched(IF r.ok THEN r.data ELSE <<>>)]
           settled == [operations[c] EXCEPT ![service] = IF r.ok THEN "ok" ELSE "failed"]
       IN  /\ serviceRoutes' = routes
           /\ operations' = [operations EXCEPT ![c] = settled]
           /\ IF \A s \in ServiceNames : settled[s] # "pending"
              THEN RenderAndGenerate(c, services, routes, log[c])
              ELSE UNCHANGED <<pc, outcome, log>>
  /\ UNCHANGED <<services, ctx, health, validateVars, extractVars, renderVars>>

\* Lines 191-193 and the rejection of the fetch of line 182.
generationFails(c) ==
  /\ pc[c] = "generate"
  /\ \E r \in GenerationFailures :
       log' = [log EXCEPT ![c] = Append(@, Answer("generate", <<>>, "failed"))]
  /\ outcome' = [outcome EXCEPT ![c] = Ended(Thrown("GenerationRequestError", EmptyQuery))]
  /\ pc' = [pc EXCEPT ![c] = "done"]
  /\ UNCHANGED <<services, serviceRoutes, ctx, operations, health, validateVars, extractVars, renderVars>>

\* Lines 195-214 when the response has no text: JSON.parse(undefined) throws
\* and so does undefined.match in the catch block.
generationWithoutText(c) ==
  /\ pc[c] = "generate"
  /\ log' = [log EXCEPT ![c] = @ \o <<Answer("generate", <<>>, "ok"),
                                      Step("extract", "TypeError")>>]
  /\ outcome' = [outcome EXCEPT ![c] = Ended(Thrown("TypeError", EmptyQuery))]
  /\ pc' = [pc EXCEPT ![c] = "done"]
  /\ UNCHANGED <<services, serviceRoutes, ctx, operations, health, validateVars, extractVars, renderVars>>

\* Lines 195-214: the JSON is extracted from the text and, when there is
\* one, validated.
generationOk(c) ==
  /\ pc[c] = "generate"
  /\ \E text \in ResponseTexts :
       LET result == extractJSON(text)
           checked == validateQuery(result.q, services, serviceRoutes)
           seen == Append(log[c], Answer("generate", <<>>, "ok"))
       IN  IF result.status = "ok"
           THEN /\ outcome' = [outcome EXCEPT ![c] = Ended(checked)]
                /\ log' = [log EXCEPT ![c] = seen \o <<Step("extract", "ok"),
                                                       Step("validate", checked.status)>>]
           ELSE /\ outcome' = [outcome EXCEPT ![c] = Ended(result)]
                /\ log' = [log EXCEPT ![c] = Append(seen, Step("extract", result.status))]
  /\ pc' = [pc EXCEPT ![c] = "done"]
  /\ UNCHANGED <<services, serviceRoutes, ctx, operations, health, validateVars, extractVars, renderVars>>

Init ==
  /\ ServiceIdle
  /\ ValidateIdle
  /\ ExtractIdle
  /\ RenderIdle

\* One step of the call c.
CallStep(c) ==
  \/ translateQuery(c)
  \/ healthCheckFails(c)
  \/ healthCheckOk(c)
  \/ fetchServicesFails(c)
  \/ fetchServicesOk(c)
  \/ \E service \in ServiceNames : fetchServiceOperations(c, service)
  \/ generationFails(c)
  \/ generationWithoutText(c)
  \/ generationOk(c)

Next == \E c \in Calls : CallStep(c)

Spec == Init /\ [][Next]_vars

\* What the code guarantees of a call in flight: AbortSignal.timeout ends the
\* health request after 5 seconds (line 149) and the generation request after
\* 30 seconds (line 188), so each of the two is answered or fails.  The
\* requests to the trace-metadata API (lines 111 and 130) carry no signal:
\* nothing guarantees that they are ever answered.
HealthSettles(c) == healthCheckFails(c) \/ healthCheckOk(c)
GenerationSettles(c) == generationFails(c) \/ generationWithoutText(c) \/ generationOk(c)

\* One call on its own, with the answers the timeouts guarantee.
NextAlone == CallStep(1)

SpecLive ==
  /\ Init
  /\ [][NextAlone]_vars
  /\ WF_vars(HealthSettles(1))
  /\ WF_vars(GenerationSettles(1))

(***************************************************************************)
(* The claims about translateQuery, checked under Spec.                    *)
(***************************************************************************)
\* Every field rule of a structured query, against the service list svcs.
LimitRule(q) == q.limit.t = "num" /\ q.limit.n > 0
ServiceRule(q, svcs) == IsMissing(q.service) \/ ServiceKnown(q.service, svcs)
LookbackRule(q) ==
  IsMissing(q.lookback) \/ (q.lookback.t = "str" /\ WellFormedLookback(q.lookback.s))
DurationRule(v) == IsMissing(v) \/ (v.t = "str" /\ WellFormedDuration(v.s))
TagsRule(q) ==
  \/ IsMissing(q.tags)
  \/ /\ q.tags.t = "str"
     /\ q.tags.s # <<>>
     /\ \A i \in 1..Len(Split(q.tags.s, " ")) : ShapeValidPair(Split(q.tags.s, " ")[i])

AllFieldRules(q, svcs) ==
  /\ LimitRule(q)
  /\ ServiceRule(q, svcs)
  /\ LookbackRule(q)
  /\ DurationRule(q.minDuration)
  /\ DurationRule(q.maxDuration)
  /\ TagsRule(q)

\* C1: every query translateQuery returns satisfies every field rule against
\* the service list cached when it is returned.
C1_ReturnedQueryPassesEveryRule ==
  \A c \in Calls :
    outcome[c].status = "ok" => AllFieldRules(outcome[c].q, outcome[c].services)

Requested(c, kind) ==
  \E i \in 1..Len(log[c]) : log[c][i][1] = kind /\ log[c][i][3] = "request"

\* C2: a call whose health check failed (non-2xx status, timeout, connection
\* failure) has failed with BackendUnavailableError and has issued no request
\* to the generation endpoint.
C2_FailedHealthCheckStopsTheCall ==
  \A c \in Calls :
    health[c] \in HealthFailures =>
      /\ outcome[c].status = "BackendUnavailableError"
      /\ pc[c] = "done"
      /\ ~Requested(c, "generate")

\* A health check that timed out while the other call got as far as the
\* generation request.
C2_Witness ==
  \E c, d \in Calls :
    /\ health[c] = "timeout"
    /\ outcome[c].status = "BackendUnavailableError"
    /\ Requested(d, "generate")

TypedErrors ==
  {"BackendUnavailableError", "MetadataFetchError", "GenerationRequestError",
   "MalformedResponseError", "InvalidServiceError"}

\* C3: a call returns a query or fails with one of the five typed errors.
C3_OnlyTypedErrorsReachTheCaller ==
  \A c \in Calls : outcome[c].status \in {"none", "ok"} \cup TypedErrors

(***************************************************************************)
(* The frame of the validator, checked under SpecValidate.                 *)
(***************************************************************************)
\* The route rule of the route-aware validator: with a service, the whole
\* value of every http.route pair is a cached route of that service.
RouteRule(q, routes) ==
  (q.tags.t = "str" /\ q.service.t = "str") =>
    \A i \in 1..Len(Split(q.tags.s, " ")) :
      LET pair == Split(q.tags.s, " ")[i]
      IN  (HasEq(pair) /\ KeyOf(pair) = HttpRoute) =>
            /\ q.service.s \in DOMAIN routes
            /\ routes[q.service.s].def
            /\ \E k \in 1..Len(routes[q.service.s].routes) :
                 routes[q.service.s].routes[k] = WholeValueOf(pair)

Answered(c, kind, result) ==
  \E i \in 1..Len(log[c]) : log[c][i] = Answer(kind, <<>>, result)

\* C12: when the service-list request of a call fails, the call ends with
\* MetadataFetchError without a generation request and the cached services
\* and routes stay as they were; a call that passes its health check while
\* the cached list is empty requests the list.
C12_FailedListFetchEndsTheCall ==
  [][\A c \in Calls :
       /\ (~Answered(c, "services", "failed") /\ Answered(c, "services", "failed")') =>
            /\ outcome'[c].status = "MetadataFetchError"
            /\ pc'[c] = "done"
            /\ ~Requested(c, "generate")'
            /\ services' = services
            /\ serviceRoutes' = serviceRoutes
       /\ (health[c] = "none" /\ health'[c] = "ok" /\ services = <<>>) =>
            /\ Requested(c, "services")'
            /\ pc'[c] = "services"
       /\ pc[c] = "done" => (pc'[c] = "done" /\ log'[c] = log[c])]_vars

\* The first call failed on the service list, the list is still empty and
\* the second call has requested it.
C12_Witness ==
  /\ outcome[1].status = "MetadataFetchError"
  /\ services = <<>>
  /\ Requested(2, "services")
  /\ ~Requested(1, "generate")

\* A request, and the answer that a fetch failed.
IsRequest(e) == e[3] = "request"
IsFailure(e) ==
  /\ e[1] \in {"health", "services", "generate"}
  /\ e[3] \in HealthFailures \cup {"failed"}

\* C13: a call sends no request twice, and the failure of its health,
\* service-list or generation request is the last event of the call, which
\* has ended with an error.
C13_NoStepIsRetried ==
  \A c \in Calls :
    /\ \A i, j \in 1..Len(log[c]) :
         (i < j /\ IsRequest(log[c][i])) => log[c][i] # log[c][j]
    /\ \A i \in 1..Len(log[c]) :
         IsFailure(log[c][i]) =>
           /\ i = Len(log[c])
           /\ pc[c] = "done"
           /\ outcome[c].status \notin {"none", "ok"}

\* A call that populated a catalog of two services, sent its generation
\* request and saw it fail.
C13_Witness ==
  \E c \in Calls :
    /\ Requested(c, "services")
    /\ \A s \in ServiceNames : operations[c][s] \in {"ok", "failed"}
    /\ Answered(c, "generate", "failed")
    /\ outcome[c].status = "GenerationRequestError"

\* The call has built its prompt (or failed doing so); it has validated a
\* candidate.
Rendered(c) == \E i \in 1..Len(log[c]) : log[c][i][1] = "render"
Validated(c) == \E i \in 1..Len(log[c]) : log[c][i][1] = "validate"

\* Every service of the cached list has a recorded route set.
CatalogComplete ==
  \A i \in 1..Len(services) : RoutesOf(serviceRoutes, services[i]).def

\* C15: on the step on which a call builds its prompt or validates a
\* candidate, every service of the cached list has a recorded route set.
C15_NoCallReadsAPartialCatalog ==
  [][\A c \in Calls :
       ((~Rendered(c) /\ Rendered(c)') \/ (~Validated(c) /\ Validated(c)'))
         => CatalogComplete']_vars

\* The place of an event's step in the order the system overview gives
\* (the catalog first) and in the order health check, catalog, prompt,
\* generation, extraction, validation.
RankOverview(e) ==
  CASE e[1] \in {"services", "operations"} -> 1
    [] e[1] = "health" -> 2
    [] e[1] = "render" -> 3
    [] e[1] = "generate" -> 4
    [] e[1] = "extract" -> 5
    [] e[1] = "validate" -> 6

RankHealthFirst(e) ==
  CASE e[1] = "health" -> 1
    [] e[1] \in {"services", "operations"} -> 2
    [] OTHER -> RankOverview(e)

\* A step that failed: a request that was not answered with a 2xx response,
\* or a step of the call that threw.
StepFailed(e) == ~IsRequest(e) /\ e[3] # "ok"

\* No step of the call starts before the previous one has finished, and none
\* after one has failed: an answered request is followed at once by its
\* answer, the prompt is built when no operations request is pending, and a
\* failed step is the last event.
StepsDoNotOverlap(c) ==
  /\ \A i \in 1..(Len(log[c]) - 1) :
       (IsRequest(log[c][i]) /\ log[c][i][1] # "operations") =>
         (log[c][i + 1][1] = log[c][i][1] /\ ~IsRequest(log[c][i + 1]))
  /\ Rendered(c) => \A s \in ServiceNames : operations[c][s] # "pending"
  /\ \A i \in 1..Len(log[c]) : StepFailed(log[c][i]) => i = Len(log[c])

\* C16: the steps of a call happen in the order of the system overview:
\* catalog, health check, prompt, generation request, extraction, validation.
C16_StepsFollowTheOverview ==
  \A c \in Calls :
    /\ \A i, j \in 1..Len(log[c]) :
         i < j => RankOverview(log[c][i]) <= RankOverview(log[c][j])
    /\ StepsDoNotOverlap(c)

\* C16, amended: the steps of a call happen in the order health check,
\* catalog, prompt, generation request, extraction, validation.
C16_StepsFollowTheCode ==
  \A c \in Calls :
    /\ \A i, j \in 1..Len(log[c]) :
         i < j => RankHealthFirst(log[c][i]) <= RankHealthFirst(log[c][j])
    /\ StepsDoNotOverlap(c)

\* A call that took every step, the population of the catalog included.
C16_Witness ==
  \E c \in Calls :
    /\ Requested(c, "services")
    /\ Requested(c, "operations")
    /\ Validated(c)
    /\ outcome[c].status = "ok"

\* The requests a call has sent to the trace-metadata API.
MetadataRequests(c) ==
  SelectSeq(log[c], LAMBDA e : IsRequest(e) /\ e[1] \in {"services", "operations"})

\* A call is populating the catalog: it awaits the service list or the
\* operations of its services.
PopulationInFlight == \E c \in Calls : pc[c] \in {"services", "operations"}

\* Only a call that passes its health check while the cached list is empty
\* requests the list, and only a call that got the list requests operations.
OnlyAnEmptyCacheIsFilled ==
  \A c \in Calls :
    /\ (~Requested(c, "services") /\ Requested(c, "services")') => services = <<>>
    /\ Requested(c, "operations")' => Requested(c, "services")'

\* From here on the catalog stays as it is and no call asks for metadata.
CatalogIsFrozen ==
  /\ services' = services
  /\ serviceRoutes' = serviceRoutes
  /\ \A c \in Calls : MetadataRequests(c)' = MetadataRequests(c)

\* C17: metadata is requested only by a call that finds the cached list
\* empty, and once the cache holds at least one service, with its routes, no
\* call requests metadata and the cache never changes.
C17_CacheNeverChangesOnceFilled ==
  [][/\ OnlyAnEmptyCacheIsFilled
     /\ (services # <<>> /\ CatalogComplete) => CatalogIsFrozen]_vars

\* C17, amended: metadata is requested only by a call that finds the cached
\* list empty, and once the cache holds at least one service and no call is
\* populating it, no call requests metadata and the cache never changes.
C17_CacheIsFrozenAfterThePopulations ==
  [][/\ OnlyAnEmptyCacheIsFilled
     /\ (services # <<>> /\ ~PopulationInFlight) => CatalogIsFrozen]_vars

\* The first call filled the cache and the second call, made after it had
\* ended, returned without a metadata request.
C17_Witness ==
  /\ Requested(1, "operations")
  /\ services # <<>>
  /\ outcome[2].status = "ok"
  /\ MetadataRequests(2) = <<>>
  /\ outcome[2].services = outcome[1].services
  /\ outcome[2].routes = outcome[1].routes

\* C18: every call that has been made sent its own health request first and
\* took no other step before the answer to it; a call whose health check
\* failed took no other step at all and ended with BackendUnavailableError,
\* whatever the cache holds and however the other calls ended.
C18_EveryCallChecksHealth ==
  \A c \in Calls :
    pc[c] # "idle" =>
      /\ log[c][1] = Request("health", <<>>)
      /\ Len(log[c]) >= 2 => log[c][2] = Answer("health", <<>>, health[c])
      /\ health[c] \in HealthFailures =>
           /\ Len(log[c]) = 2
           /\ pc[c] = "done"
           /\ outcome[c].status = "BackendUnavailableError"

\* The first call passed its health check, filled the cache and returned a
\* query; the health check of the second call failed.
C18_Witness ==
  /\ health[1] = "ok"
  /\ outcome[1].status = "ok"
  /\ services # <<>>
  /\ CatalogComplete
  /\ health[2] = "network"
  /\ outcome[2].status = "BackendUnavailableError"
  /\ outcome[2].services = services

\* The call awaits the operations of some service.
AwaitsOperations(c) == \E s \in ServiceNames : operations[c][s] = "pending"

\* C19: when an operations request of a call settles, a failed one records
\* the empty route set and a successful one the routes it fetched; when the
\* last one has settled, however many failed, every service of the list the
\* call fetched has a route set and the call sends its generation request.
C19_FailedOperationsDoNotFailTheCall ==
  [][\A c \in Calls :
       /\ \A s \in ServiceNames :
            (operations[c][s] = "pending" /\ operations'[c][s] # "pending") =>
              serviceRoutes'[s] = IF operations'[c][s] = "failed" THEN Fetched(<<>>)
                                  ELSE Fetched(<<RouteA>>)
       /\ (AwaitsOperations(c) /\ ~AwaitsOperations(c)') =>
            /\ \A s \in ServiceNames : operations'[c][s] # "none" => serviceRoutes'[s].def
            /\ Requested(c, "generate")'
            /\ pc'[c] = "generate"]_vars

\* The call is the only one that has requested the service list.
OnlyPopulator(c) ==
  /\ Requested(c, "services")
  /\ \A d \in Calls \ {c} : ~Requested(d, "services")

\* C20: the operations requests of a call are sent together, right after the
\* service list has arrived; the call builds its prompt and sends its
\* generation request only when all of them have settled; and when they have,
\* in whatever order, the route set of each service is what its own request
\* brought (as long as no other call populates the catalog too).
C20_OperationsSettleInAnyOrder ==
  \A c \in Calls :
    /\ \A i \in 1..Len(log[c]) :
         log[c][i][1] = "operations" =>
           /\ i > 1
           /\ \/ log[c][i - 1] = Answer("services", <<>>, "ok")
              \/ log[c][i - 1][1] = "operations"
    /\ (Rendered(c) \/ Requested(c, "generate")) => ~AwaitsOperations(c)
    /\ (OnlyPopulator(c) /\ ~AwaitsOperations(c)) =>
         \A s \in ServiceNames :
           /\ operations[c][s] = "ok" => serviceRoutes[s] = Fetched(<<RouteA>>)
           /\ operations[c][s] = "failed" => serviceRoutes[s] = Fetched(<<>>)

\* The operations of the second service of the list have settled while those
\* of the first are still awaited.
C20_Witness ==
  \E c \in Calls :
    /\ services = <<SvcA, SvcB>>
    /\ operations[c][SvcA] = "pending"
    /\ operations[c][SvcB] = "ok"
    /\ serviceRoutes[SvcB] = Fetched(<<RouteA>>)
    /\ ~Rendered(c)

\* The template with the view in the place of {services} and the query in
\* the place of {query}, both as they are.
PromptWith(view, query) ==
  TemplateHead \o view \o TemplateRules \o query \o TemplateTail

\* C21: a rendered prompt is the template with its {services} placeholder
\* replaced by the metadata view and its {query} placeholder replaced by the
\* text of the user, both verbatim, and with nothing else substituted.
C21_PromptHoldsViewAndQueryVerbatim ==
  pPrompt.status = "ok" =>
    pPrompt.text = PromptWith(servicesInfo(pContext, pServices, pRoutes), pQuery)

\* C22: a query that validateQuery returned is returned again, with the same
\* fields and values, when validateQuery is applied to it against the same
\* catalog.
C22_ValidationIsIdempotent ==
  (vVariant = "ts" /\ vOut.status = "ok") =>
     validateQuery(vOut.q, vServices, vRoutes) = Returned(vOut.q)

\* validateQuery returned a query that differs from the candidate in its
\* limit, its lookback, a duration and its tags.
C22_Witness ==
  /\ vVariant = "ts"
  /\ vOut.status = "ok"
  /\ vOut.q.limit # vIn.limit
  /\ vOut.q.lookback # vIn.lookback
  /\ vOut.q.minDuration # vIn.minDuration
  /\ vOut.q.tags # vIn.tags
  /\ validateQuery(vOut.q, vServices, vRoutes) = Returned(vOut.q)

(***************************************************************************)
(* Termination, checked under SpecLive.                                    *)
(***************************************************************************)
\* C14: a call that has been made eventually ends, returning or throwing.
C14_EveryCallCompletes == (pc[1] # "idle") ~> (pc[1] = "done")

====
